---- MODULE Spec2Model ----
(***************************************************************************)
(* ng16-dep-audit: the dependency classification engine of the CLI         *)
(* (src/unnamed/part_001).  One classification task per manifest entry,    *)
(* all multiplexed on the node event loop: every action below is one       *)
(* event-loop callback of one task, run up to its next suspension point    *)
(* (an await on the network, a timer or the file system).                  *)
(*                                                                         *)
(* Strings the code inspects (package names, file names) are sequences of  *)
(* characters or of dot-separated tokens, so that startsWith, the          *)
(* sanitising replace and the extension rewrites are computed.             *)
(***************************************************************************)
EXTENDS Integers, Sequences, FiniteSets, TLC

\* ------------------------------------------------------------------ bounds

\* Largest number of entries of the manifest's "dependencies" map.
MaxDeps == 2

\* ------------------------------------------------------- program constants

\* httpGetWithRetry(url, retries = 3, delayMs = 1000)
retries == 3
delayMs == 1000

\* ------------------------------------------------------------ basic values

Null == [null |-> TRUE]

\* checkAngularCompatibility's await of httpGetWithRetry yields undefined
\* when the retry loop runs out (a function that ends without return).
Undefined == [undefined |-> TRUE]

RECURSIVE Pow2(_)
Pow2(n) == IF n = 0 THEN 1 ELSE 2 * Pow2(n - 1)

\* String.prototype.startsWith on character sequences.
StartsWith(s, p) == Len(s) >= Len(p) /\ SubSeq(s, 1, Len(p)) = p

AngularPrefix == <<"@", "a", "n", "g", "u", "l", "a", "r", "/">>

\* packageName.startsWith('@angular/')
IsAngularPackage(packageName) == StartsWith(packageName, AngularPrefix)

\* packageName.replace(/[@/]/g, '_')
sanitizePackageName(packageName) ==
  [i \in 1..Len(packageName) |->
     IF packageName[i] \in {"@", "/"} THEN "_" ELSE packageName[i]]

\* The prefix mkdtempSafe hands to fs.promises.mkdtemp for `npm-${name}-`.
TmpPrefix(packageName) ==
  sanitizePackageName(<<"n", "p", "m", "-">> \o packageName \o <<"-">>)

\* The random characters fs.promises.mkdtemp appends to the prefix.
Suffixes == {"aaaaaa", "bbbbbb"}

\* ------------------------------------------------------------------- paths
\* A path is a root (a temporary directory, or NoRoot for a relative path),
\* the directory segments and the file name as its dot-separated tokens:
\* "dist/index.d.ts" is dir <<"dist">>, file <<"index", "d", "ts">>.

NoRoot == [none |-> TRUE]

Rel(dir, file) == [root |-> NoRoot, dir |-> dir, file |-> file]

\* field.replace(/\.js$/, '.d.ts')
ReplaceJsByDts(p) ==
  LET n == Len(p.file) IN
  IF n >= 2 /\ p.file[n] = "js"
  THEN [p EXCEPT !.file = SubSeq(p.file, 1, n - 1) \o <<"d", "ts">>]
  ELSE p

\* foundTypings.replace(/\.d\.ts$/, '') + '.metadata.json'
MetadataFileOf(p) ==
  LET n == Len(p.file)
      stem == IF n >= 3 /\ p.file[n - 1] = "d" /\ p.file[n] = "ts"
              THEN SubSeq(p.file, 1, n - 2) ELSE p.file
  IN [p EXCEPT !.file = stem \o <<"metadata", "json">>]

\* path.resolve(tmpDir, p): an absolute p is kept, a relative p is rooted.
PathResolve(tmpDir, p) ==
  IF p.root # NoRoot THEN p ELSE [p EXCEPT !.root = tmpDir]

\* fs.promises.readdir(extractTo): the names of the directory's own entries,
\* each a bare name (no root, no directory part).
Readdir(files) ==
  { Rel(<<>>, IF f.dir = <<>> THEN f.file ELSE <<f.dir[1]>>) : f \in files }

\* checkFileExists(extractTo, checkFileName): files.includes(checkFileName)
checkFileExists(files, checkFileName) == checkFileName \in Readdir(files)

\* --------------------------------------------------------------- registry

SUPPORTED_FORMAT_PROPERTIES ==
  <<"fesm2015", "fesm5", "es2015", "esm2015", "esm5", "main", "module", "browser">>

FormatProps == { SUPPORTED_FORMAT_PROPERTIES[i] : i \in 1..Len(SUPPORTED_FORMAT_PROPERTIES) }

\* The format fields of a document are the properties it defines: a property
\* outside the domain is the `typeof field !== 'string'` case.
NoFormats == [p \in {} |-> Null]

NgCore == <<"@", "a", "n", "g", "u", "l", "a", "r", "/", "c", "o", "r", "e">>
LeftPad == <<"l", "e", "f", "t", "-", "p", "a", "d">>
OldFlag == <<"o", "l", "d", "-", "f", "l", "a", "g">>
NgxFlag == <<"n", "g", "x", "-", "f", "l", "a", "g">>
\* Two names that sanitizePackageName maps to the same prefix.
NgxVe == <<"@", "n", "g", "x", "/", "v", "e">>
NgxIvy == <<"_", "n", "g", "x", "_", "v", "e">>
Rxjs == <<"r", "x", "j", "s">>

IndexJs == Rel(<<>>, <<"index", "js">>)
IndexDts == Rel(<<>>, <<"index", "d", "ts">>)
IndexMetadata == Rel(<<>>, <<"index", "metadata", "json">>)
PackageJsonFile == Rel(<<>>, <<"package", "json">>)
BrowserJs == Rel(<<>>, <<"browser", "js">>)
BrowserDts == Rel(<<>>, <<"browser", "d", "ts">>)
FesmJs == Rel(<<"fesm2015">>, <<"index", "js">>)

\* The registry's /<name>/latest documents (the 2xx bodies) and the content
\* of each dist.tarball, for the packages a manifest can name.
\*   metadata: the legacy `metadata` field of older registry documents;
\*   formats:  the format properties the document defines (_ngx_ve names a
\*             fesm2015 bundle that ships no declaration file beside it);
\*   archive:  the files tar.extract puts below the extraction directory.
Registry ==
  << [name |-> NgCore, version |-> "16.0.0",
      dependencies |-> {}, devDependencies |-> {}, peerDependencies |-> {Rxjs},
      metadata |-> FALSE, typings |-> IndexDts, types |-> Null,
      formats |-> NoFormats, archive |-> {IndexDts, PackageJsonFile}],
     [name |-> LeftPad, version |-> "1.3.0",
      dependencies |-> {}, devDependencies |-> {}, peerDependencies |-> {},
      metadata |-> FALSE, typings |-> Null, types |-> IndexDts,
      formats |-> [p \in {"main"} |-> IndexJs],
      archive |-> {IndexJs, IndexDts, PackageJsonFile}],
     [name |-> OldFlag, version |-> "1.3.0",
      dependencies |-> {}, devDependencies |-> {}, peerDependencies |-> {},
      metadata |-> TRUE, typings |-> IndexDts, types |-> Null,
      formats |-> NoFormats,
      archive |-> {IndexDts, IndexMetadata, PackageJsonFile}],
     [name |-> NgxFlag, version |-> "1.3.0",
      dependencies |-> {}, devDependencies |-> {}, peerDependencies |-> {NgCore},
      metadata |-> TRUE, typings |-> IndexDts, types |-> Null,
      formats |-> NoFormats,
      archive |-> {IndexDts, IndexMetadata, PackageJsonFile}],
     [name |-> NgxVe, version |-> "1.3.0",
      dependencies |-> {NgCore}, devDependencies |-> {}, peerDependencies |-> {},
      metadata |-> FALSE, typings |-> IndexDts, types |-> Null,
      formats |-> NoFormats,
      archive |-> {IndexDts, IndexMetadata, PackageJsonFile}],
     [name |-> NgxIvy, version |-> "1.3.0",
      dependencies |-> {}, devDependencies |-> {NgCore}, peerDependencies |-> {},
      metadata |-> FALSE, typings |-> Null, types |-> Null,
      formats |-> [p \in {"fesm2015", "main", "browser"} |->
                     IF p = "fesm2015" THEN FesmJs
                     ELSE IF p = "main" THEN IndexJs ELSE BrowserJs],
      archive |-> {FesmJs, IndexJs, IndexDts, BrowserJs, BrowserDts,
                   PackageJsonFile}] >>

\* The version ranges a manifest declares for a package.
DeclaredVersions(packageName) ==
  IF IsAngularPackage(packageName) THEN {"15.0.0", "16.0.0"} ELSE {"1.0.0"}

\* The registry document published under a package name.
RegistryDoc(packageName) ==
  Registry[CHOOSE i \in 1..Len(Registry) : Registry[i].name = packageName]

RegistryIndex(packageName) ==
  CHOOSE i \in 1..Len(Registry) : Registry[i].name = packageName

DependencySpecs ==
  { [packageName |-> Registry[i].name, currentVersion |-> v] :
      i \in 1..Len(Registry), v \in {"15.0.0", "16.0.0", "1.0.0"} }

\* The "dependencies" maps of the manifests: up to MaxDeps distinct packages
\* of the registry, in key order.
Manifests ==
  UNION { { m \in [1..n -> DependencySpecs] :
              /\ \A k \in 1..n : m[k].currentVersion \in DeclaredVersions(m[k].packageName)
              /\ \A k \in 1..(n - 1) :
                   RegistryIndex(m[k].packageName) < RegistryIndex(m[k + 1].packageName) } :
          n \in 0..MaxDeps }

\* ------------------------------------------------------------------- state

VARIABLES
  manifestExists,                 \* fs.existsSync(packageJsonPath)
  dependencies,                   \* packageJson.dependencies, in key order
  skipAngular,                    \* -ng / --skip-ng
  enforceAngularPackageBoundary,  \* -pb / --package-boundary
  phase,                          \* position of getDependenciesAndCheckCompatibility
  dependenciesToCheck,            \* the three buckets and processedPackages
  tasks,                          \* one checkAngularCompatibility call per entry
  disk,                           \* temporary directories that exist, with their files
  progress                        \* the updateProgressBar calls, in order

vars ==
  <<manifestExists, dependencies, skipAngular, enforceAngularPackageBoundary,
    phase, dependenciesToCheck, tasks, disk, progress>>

Tasks == 1..Len(dependencies)

totalPackages == Len(dependencies)

\* A task that was never launched, and the fields of a launched one.
IdleTask ==
  [pc |-> "notLaunched",   \* where the task is suspended
   attempt |-> 0,           \* httpGetWithRetry's loop variable
   requests |-> 0,          \* registry requests issued so far
   responses |-> <<>>,      \* what the registry answered, per request
   delays |-> <<>>,         \* the delay(ms) calls so far
   packageInfo |-> Null,    \* what httpGetWithRetry returned
   tmpDir |-> Null,         \* isViewEngine's tmpDir
   mkdtemps |-> 0,          \* temporary directories created so far
   downloads |-> 0,         \* archive downloads started so far
   extracted |-> FALSE,     \* tar.extract has succeeded
   foundTypings |-> Null,   \* isViewEngine's foundTypings
   result |-> FALSE]        \* what isViewEngine returns

\* Variant: the -ng filter is not applied.
Launched_All(t) == TRUE

\* skipAngular ? keys.filter(name => !name.startsWith('@angular/')) : keys
Launched(t) ==
  ~(skipAngular /\ IsAngularPackage(dependencies[t].packageName))

\* The runs considered: any manifest, with or without package.json on disk,
\* -pb on or off, and -ng on or off when the manifest names a first-party
\* package (on a manifest without one the filter of -ng keeps every key, so
\* the run is the one without -ng).
Init ==
  /\ manifestExists \in BOOLEAN
  /\ dependencies \in Manifests
  /\ skipAngular \in BOOLEAN
  /\ skipAngular =>
       \E k \in 1..Len(dependencies) : IsAngularPackage(dependencies[k].packageName)
  /\ enforceAngularPackageBoundary \in BOOLEAN
  /\ phase = "start"
  /\ dependenciesToCheck =
       [mayNeedUpgrade |-> <<>>, reviewForRemoval |-> <<>>, unknown |-> <<>>,
        processedPackages |-> 0]
  /\ tasks = [t \in Tasks |-> IdleTask]
  /\ disk = <<>>
  /\ progress = <<>>

\* ------------------------------------------------------------- coordinator

\* Variant: the missing manifest is reported and the run goes on with the
\* dependencies.
ManifestMissing_FallsThrough ==
  /\ phase = "start"
  /\ ~manifestExists
  /\ phase' = "running"
  /\ progress' = Append(progress, dependenciesToCheck.processedPackages)
  /\ tasks' = [t \in Tasks |->
                 IF Launched(t)
                 THEN [IdleTask EXCEPT !.pc = "fetching", !.attempt = 1, !.requests = 1]
                 ELSE IdleTask]
  /\ UNCHANGED <<manifestExists, dependencies, skipAngular,
                 enforceAngularPackageBoundary, dependenciesToCheck, disk>>

\* getDependenciesAndCheckCompatibility when package.json is absent.
ManifestMissing ==
  /\ phase = "start"
  /\ ~manifestExists
  /\ phase' = "noManifest"
  /\ UNCHANGED <<manifestExists, dependencies, skipAngular,
                 enforceAngularPackageBoundary, dependenciesToCheck, tasks,
                 disk, progress>>

\* Variant: the coordinator starts the first task only (no .map over the
\* keys).
Launch_OneAtATime ==
  /\ phase = "start"
  /\ manifestExists
  /\ phase' = "running"
  /\ progress' = Append(progress, dependenciesToCheck.processedPackages)
  /\ tasks' = [t \in Tasks |->
                 IF Launched(t) /\ \A u \in 1..(t - 1) : ~Launched(u)
                 THEN [IdleTask EXCEPT !.pc = "fetching", !.attempt = 1, !.requests = 1]
                 ELSE IdleTask]
  /\ UNCHANGED <<manifestExists, dependencies, skipAngular,
                 enforceAngularPackageBoundary, dependenciesToCheck, disk>>

\* getDependenciesAndCheckCompatibility up to `await Promise.all(promises)`:
\* every task that passes the filter runs up to its first registry request.
Launch ==
  /\ phase = "start"
  /\ manifestExists
  /\ phase' = "running"
  /\ progress' = Append(progress, dependenciesToCheck.processedPackages)
  /\ tasks' = [t \in Tasks |->
                 IF Launched(t)
                 THEN [IdleTask EXCEPT !.pc = "fetching", !.attempt = 1, !.requests = 1]
                 ELSE IdleTask]
  /\ UNCHANGED <<manifestExists, dependencies, skipAngular,
                 enforceAngularPackageBoundary, dependenciesToCheck, disk>>

\* Variant: the push replaces the bucket's content (an update that loses
\* what other tasks appended).
Push_Overwrite(dtc, bucket, entry) == [dtc EXCEPT ![bucket] = <<entry>>]

\* Variant: the entry is put at the front of the bucket (unshift).
Push_Front(dtc, bucket, entry) == [dtc EXCEPT ![bucket] = <<entry>> \o @]

\* dependenciesToCheck.<bucket>.push(entry)
Push(dtc, bucket, entry) == [dtc EXCEPT ![bucket] = Append(@, entry)]

Entry(t, latestVersion) ==
  [packageName |-> dependencies[t].packageName,
   currentVersion |-> dependencies[t].currentVersion,
   latestVersion |-> latestVersion]

\* Variant: the .then() does not count the task.
Settle_NoCount(t, dtc) ==
  /\ dependenciesToCheck' = dtc
  /\ progress' = progress

\* The .then() the coordinator chains on a task's promise: it runs in the
\* same event-loop turn in which checkAngularCompatibility returns.
\* dtc is dependenciesToCheck as the task's last callback left it.
Settle(t, dtc) ==
  LET processed == dtc.processedPackages + 1 IN
  /\ dependenciesToCheck' = [dtc EXCEPT !.processedPackages = processed]
  /\ progress' = IF processed % 5 = 0 \/ processed = totalPackages
                 THEN Append(progress, processed) ELSE progress

\* Variant: the coordinator goes on as soon as one promise has settled
\* (Promise.race).
PromiseAll_Race == \E t \in Tasks : Launched(t) /\ tasks[t].pc = "done"

\* `await Promise.all(promises)`: every promise of the array has settled
\* (each ends in .then().catch(), so none rejects).
PromiseAll == \A t \in Tasks : Launched(t) => tasks[t].pc = "done"

\* After `await Promise.all(promises)`: the final progress bar and the report,
\* printed from the three buckets.
Render ==
  /\ phase = "running"
  /\ PromiseAll
  /\ phase' = "rendered"
  /\ progress' = Append(progress, dependenciesToCheck.processedPackages)
  /\ UNCHANGED <<manifestExists, dependencies, skipAngular,
                 enforceAngularPackageBoundary, dependenciesToCheck, tasks, disk>>

\* ---------------------------------------------------------- registry client

Name(t) == dependencies[t].packageName

\* The process runs its event loop: the callbacks of the launched tasks are
\* delivered, whatever the position of the coordinator.
Alive == phase \in {"running", "rendered"}

\* A launched task with a registry request outstanding.
Fetching(t) == Alive /\ tasks[t].pc = "fetching"

\* What one https.get of the registry can end in: a response with a status
\* code, or the request's 'error' event (code 0).
Responses ==
  { [kind |-> "status", code |-> c] : c \in {200, 404, 429, 500} }
    \cup { [kind |-> "error", code |-> 0] }

\* Variant: the 404 test is missing, so a 404 is one more non-2xx status.
Is404_Never(r) == FALSE

\* `resp.statusCode === 404`
Is404(r) == r.kind = "status" /\ r.code = 404

\* Variant: only server errors are rejected; a 429 is read as a document.
IsFailure_ServerOnly(r) ==
  \/ r.kind = "error"
  \/ r.kind = "status" /\ r.code >= 500

\* What httpGetWithRetry rejects on: the 'error' event, or a status that is
\* not 404 and is 429 or lies outside 200..299.
IsFailure(r) ==
  \/ r.kind = "error"
  \/ /\ r.kind = "status"
     /\ ~Is404(r)
     /\ (r.code = 429 \/ r.code < 200 \/ r.code > 299)

\* The remaining responses: the body is read and JSON.parse'd.
Is2xx(r) == r.kind = "status" /\ ~Is404(r) /\ ~IsFailure(r)

\* What the registry answered, as the log of a task records it.
StatusClass(r) ==
  IF r.kind = "error" THEN "failure"
  ELSE IF r.code = 404 THEN "404"
  ELSE IF r.code >= 200 /\ r.code <= 299 THEN "2xx"
  ELSE "failure"

\* Variant: a constant delay instead of the doubling one.
BackoffDelay_Constant(attempt) == delayMs

\* delayMs * Math.pow(2, attempt - 1)
BackoffDelay(attempt) == delayMs * Pow2(attempt - 1)

\* Variant: the absent result is not recorded (as when the failure is thrown
\* to checkAngularCompatibility's catch instead of being returned).
SettleAbsent_Thrown(t, r, info) ==
  /\ tasks' = [tasks EXCEPT ![t].pc = "done", ![t].packageInfo = info,
                            ![t].responses = Append(@, StatusClass(r))]
  /\ Settle(t, dependenciesToCheck)
  /\ UNCHANGED <<manifestExists, dependencies, skipAngular,
                 enforceAngularPackageBoundary, phase, disk>>

\* `if (!packageInfo) { unknown.push(packageName); return; }` and the .then().
SettleAbsent(t, r, info) ==
  /\ tasks' = [tasks EXCEPT ![t].pc = "done", ![t].packageInfo = info,
                            ![t].responses = Append(@, StatusClass(r))]
  /\ Settle(t, Push(dependenciesToCheck, "unknown", Name(t)))
  /\ UNCHANGED <<manifestExists, dependencies, skipAngular,
                 enforceAngularPackageBoundary, phase, disk>>

\* The response callback on status 404: resolve(null), so httpGetWithRetry
\* returns null from inside its loop.
Respond404(t) ==
  /\ Fetching(t)
  /\ \E r \in Responses :
       /\ Is404(r)
       /\ SettleAbsent(t, r, Null)

\* Variant: the next attempt is issued at once, while the backoff delay of
\* the failed one is still running.
RespondFailure_Eager(t) ==
  /\ Fetching(t)
  /\ \E r \in Responses :
       /\ IsFailure(r)
       /\ IF tasks[t].attempt < retries
          THEN /\ tasks' = [tasks EXCEPT
                    ![t].pc = "backoff",
                    ![t].requests = @ + 1,
                    ![t].responses = Append(@, StatusClass(r)),
                    ![t].delays = Append(@, BackoffDelay(tasks[t].attempt))]
               /\ UNCHANGED <<manifestExists, dependencies, skipAngular,
                              enforceAngularPackageBoundary, phase,
                              dependenciesToCheck, disk, progress>>
          ELSE SettleAbsent(t, r, Undefined)

\* A rejected attempt (status 429, another non-2xx status, a transport error).
\* Before the last attempt the catch block waits delayMs * 2^(attempt - 1);
\* on the last one it logs, the loop ends and the function returns undefined.
RespondFailure(t) ==
  /\ Fetching(t)
  /\ \E r \in Responses :
       /\ IsFailure(r)
       /\ IF tasks[t].attempt < retries
          THEN /\ tasks' = [tasks EXCEPT
                    ![t].pc = "backoff",
                    ![t].responses = Append(@, StatusClass(r)),
                    ![t].delays = Append(@, BackoffDelay(tasks[t].attempt))]
               /\ UNCHANGED <<manifestExists, dependencies, skipAngular,
                              enforceAngularPackageBoundary, phase,
                              dependenciesToCheck, disk, progress>>
          ELSE SettleAbsent(t, r, Undefined)

\* The timer of `await delay(...)` fires: the for loop issues the next attempt.
DelayElapsed(t) ==
  /\ Alive
  /\ tasks[t].pc = "backoff"
  /\ tasks' = [tasks EXCEPT ![t].pc = "fetching",
                            ![t].attempt = @ + 1,
                            ![t].requests = @ + 1]
  /\ UNCHANGED <<manifestExists, dependencies, skipAngular,
                 enforceAngularPackageBoundary, phase, dependenciesToCheck,
                 disk, progress>>

\* -------------------------------------------------------------- classifier

\* "@angular/core" in {...dependencies, ...devDependencies, ...peerDependencies}
hasAngularCoreDependency(packageInfo) ==
  NgCore \in (packageInfo.dependencies \cup packageInfo.devDependencies
                \cup packageInfo.peerDependencies)

\* Variant: '@angular/core' is required in both modes.
PassesBoundary_Strict(packageInfo) == hasAngularCoreDependency(packageInfo)

\* Variant: '@angular/core' is required in neither mode.
PassesBoundary_Off(packageInfo) == TRUE

\* (enforceAngularPackageBoundary && hasAngularCoreDependency)
\*   || !enforceAngularPackageBoundary
PassesBoundary(packageInfo) ==
  \/ enforceAngularPackageBoundary /\ hasAngularCoreDependency(packageInfo)
  \/ ~enforceAngularPackageBoundary

\* The first-party branch that ends the task:
\* `else if (packageName.startsWith('@angular/')) { return; }`
AngularUpToDate(t, packageInfo) ==
  /\ IsAngularPackage(Name(t))
  /\ dependencies[t].currentVersion = packageInfo.version

\* dependenciesToCheck after the first-party test: a first-party package whose
\* declared version differs from the latest one is pushed to mayNeedUpgrade.
AfterAngularCheck(t, packageInfo) ==
  IF IsAngularPackage(Name(t)) /\ dependencies[t].currentVersion # packageInfo.version
  THEN Push(dependenciesToCheck, "mayNeedUpgrade", Entry(t, packageInfo.version))
  ELSE dependenciesToCheck

\* Variant: the two branches on isViewEngine's result are exchanged.
ProbeBucket_Swapped(isVE) ==
  IF isVE THEN "mayNeedUpgrade" ELSE "reviewForRemoval"

\* `if (await isViewEngine(packageInfo)) reviewForRemoval.push(...)
\*  else mayNeedUpgrade.push(...)`
ProbeBucket(isVE) ==
  IF isVE THEN "reviewForRemoval" ELSE "mayNeedUpgrade"

\* Variant: the `metadata` field is not consulted.
LegacyFlag_Ignored(packageInfo) == FALSE

\* isViewEngine's fast path: `if (packageJson.metadata) return true`
LegacyFlag(packageInfo) == packageInfo.metadata

\* A 2xx response: httpGetWithRetry returns the parsed document and
\* checkAngularCompatibility runs up to the end, or up to the await of
\* mkdtempSafe inside isViewEngine.
Respond2xx(t) ==
  /\ Fetching(t)
  /\ \E r \in Responses :
       /\ Is2xx(r)
       /\ LET packageInfo == RegistryDoc(Name(t))
              dtc == AfterAngularCheck(t, packageInfo)
              got == [tasks EXCEPT ![t].packageInfo = packageInfo,
                                   ![t].responses = Append(@, StatusClass(r))]
          IN
          IF AngularUpToDate(t, packageInfo)
          THEN /\ tasks' = [got EXCEPT ![t].pc = "done"]
               /\ Settle(t, dtc)
          ELSE IF ~PassesBoundary(packageInfo)
          THEN /\ tasks' = [got EXCEPT ![t].pc = "done"]
               /\ Settle(t, Push(dtc, "unknown", Name(t)))
          ELSE IF LegacyFlag(packageInfo)
          THEN /\ tasks' = [got EXCEPT ![t].pc = "done", ![t].result = TRUE]
               /\ Settle(t, Push(dtc, ProbeBucket(TRUE), Entry(t, packageInfo.version)))
          ELSE \* isViewEngine: `await mkdtempSafe(...)`
               /\ tasks' = [got EXCEPT ![t].pc = "mkdtemp"]
               /\ dependenciesToCheck' = dtc
               /\ UNCHANGED progress
  /\ UNCHANGED <<manifestExists, dependencies, skipAngular,
                 enforceAngularPackageBoundary, phase, disk>>

\* ----------------------------------------------------------- archive probe

\* The directory fs.promises.mkdtemp creates for a package: the sanitised
\* prefix and random characters that make the name unused.
TmpDirOf(packageName, suffix) ==
  [prefix |-> TmpPrefix(packageName), suffix |-> suffix]

\* The entry point isViewEngine resolves in the extracted files:
\* typings || types || null, else the format properties in order, each with
\* .js replaced by .d.ts and kept when checkFileExists finds it (the loop has
\* no break: a later property that is found replaces an earlier one).
RECURSIVE FormatTypings(_, _, _, _, _)
FormatTypings(packageInfo, tmpDir, files, i, foundTypings) ==
  IF i > Len(SUPPORTED_FORMAT_PROPERTIES) THEN foundTypings
  ELSE LET prop == SUPPORTED_FORMAT_PROPERTIES[i]
           field == packageInfo.formats[prop]
           typingsPath == PathResolve(tmpDir, ReplaceJsByDts(field))
       IN IF prop \notin DOMAIN packageInfo.formats
          THEN FormatTypings(packageInfo, tmpDir, files, i + 1, foundTypings)
          ELSE FormatTypings(packageInfo, tmpDir, files, i + 1,
                 IF checkFileExists(files, typingsPath) THEN typingsPath
                 ELSE foundTypings)

FoundTypings(packageInfo, tmpDir, files) ==
  IF packageInfo.typings # Null THEN packageInfo.typings
  ELSE IF packageInfo.types # Null THEN packageInfo.types
  ELSE FormatTypings(packageInfo, tmpDir, files, 1, Null)

\* isViewEngine after a successful extraction: false without an entry point,
\* else whether checkFileExists finds the .metadata.json beside it.
MarkerFound(packageInfo, tmpDir, files) ==
  LET foundTypings == FoundTypings(packageInfo, tmpDir, files) IN
  IF foundTypings = Null THEN FALSE
  ELSE checkFileExists(files, PathResolve(tmpDir, MetadataFileOf(foundTypings)))

\* Variant: the directory is named by the prefix alone and taken over when it
\* exists already (a mkdir -p of a fixed name in place of mkdtemp).
MkdtempDone_Reuse(t) ==
  /\ Alive
  /\ tasks[t].pc = "mkdtemp"
  /\ LET dir == TmpDirOf(tasks[t].packageInfo.name, "aaaaaa") IN
     /\ disk' = [d \in DOMAIN disk \cup {dir} |->
                   IF d \in DOMAIN disk THEN disk[d] ELSE {}]
     /\ tasks' = [tasks EXCEPT ![t].pc = "downloading", ![t].tmpDir = dir,
                               ![t].mkdtemps = @ + 1, ![t].downloads = @ + 1]
  /\ UNCHANGED <<manifestExists, dependencies, skipAngular,
                 enforceAngularPackageBoundary, phase, dependenciesToCheck, progress>>

\* mkdtemp succeeded: downloadAndExtractTgz starts the GET of dist.tarball.
\* Which unused name mkdtemp draws is not observable by the program; the
\* model takes one of them.
MkdtempDone(t) ==
  /\ Alive
  /\ tasks[t].pc = "mkdtemp"
  /\ \E suffix \in Suffixes : TmpDirOf(tasks[t].packageInfo.name, suffix) \notin DOMAIN disk
  /\ LET suffix == CHOOSE x \in Suffixes :
                     TmpDirOf(tasks[t].packageInfo.name, x) \notin DOMAIN disk
         dir == TmpDirOf(tasks[t].packageInfo.name, suffix)
     IN
     /\ disk' = [d \in DOMAIN disk \cup {dir} |-> IF d = dir THEN {} ELSE disk[d]]
     /\ tasks' = [tasks EXCEPT ![t].pc = "downloading", ![t].tmpDir = dir,
                               ![t].mkdtemps = @ + 1, ![t].downloads = @ + 1]
  /\ UNCHANGED <<manifestExists, dependencies, skipAngular,
                 enforceAngularPackageBoundary, phase, dependenciesToCheck, progress>>

\* mkdtemp rejected: the await sits before isViewEngine's try, so the error
\* leaves isViewEngine and is logged by checkAngularCompatibility's catch.
MkdtempFailed(t) ==
  /\ Alive
  /\ tasks[t].pc = "mkdtemp"
  /\ tasks' = [tasks EXCEPT ![t].pc = "done"]
  /\ Settle(t, dependenciesToCheck)
  /\ UNCHANGED <<manifestExists, dependencies, skipAngular,
                 enforceAngularPackageBoundary, phase, disk>>

\* The archive's response arrived and was piped to package.tgz; 'finish'
\* closes the file and tar.extract starts.
DownloadResponse(t) ==
  /\ Alive
  /\ tasks[t].pc = "downloading"
  /\ tasks' = [tasks EXCEPT ![t].pc = "extracting"]
  /\ UNCHANGED <<manifestExists, dependencies, skipAngular,
                 enforceAngularPackageBoundary, phase, dependenciesToCheck,
                 disk, progress>>

\* The request's 'error' event: fs.unlinkSync(tgzPath), then reject(err).
\* package.tgz is created by the response callback only; when the request
\* fails before a response (tgzExists = FALSE) unlinkSync throws inside the
\* event listener, which no one catches: the process dies.
DownloadError(t) ==
  /\ Alive
  /\ tasks[t].pc = "downloading"
  /\ \E tgzExists \in BOOLEAN :
       IF tgzExists
       THEN /\ tasks' = [tasks EXCEPT ![t].pc = "cleanup", ![t].result = FALSE]
            /\ UNCHANGED phase
       ELSE /\ phase' = "crashed"
            /\ UNCHANGED tasks
  /\ UNCHANGED <<manifestExists, dependencies, skipAngular,
                 enforceAngularPackageBoundary, dependenciesToCheck, disk, progress>>

\* tar.extract resolved: the archive's files are in the directory and
\* package.tgz is unlinked; isViewEngine goes on to read the directory.
ExtractDone(t) ==
  /\ Alive
  /\ tasks[t].pc = "extracting"
  /\ tasks[t].tmpDir \in DOMAIN disk
  /\ disk' = [disk EXCEPT ![tasks[t].tmpDir] = @ \cup tasks[t].packageInfo.archive]
  /\ tasks' = [tasks EXCEPT ![t].pc = "probing", ![t].extracted = TRUE]
  /\ UNCHANGED <<manifestExists, dependencies, skipAngular,
                 enforceAngularPackageBoundary, phase, dependenciesToCheck, progress>>

\* tar.extract rejected: isViewEngine's catch logs, its finally removes the
\* directory, and the function returns false.
ExtractFailed(t) ==
  /\ Alive
  /\ tasks[t].pc = "extracting"
  /\ tasks' = [tasks EXCEPT ![t].pc = "cleanup", ![t].result = FALSE]
  /\ UNCHANGED <<manifestExists, dependencies, skipAngular,
                 enforceAngularPackageBoundary, phase, dependenciesToCheck,
                 disk, progress>>

\* The readdir calls of checkFileExists: entry-point resolution and the
\* marker test, on the files the directory holds now (a readdir of a missing
\* directory rejects, which the catch turns into false).
ProbeFiles(t) ==
  /\ Alive
  /\ tasks[t].pc = "probing"
  /\ tasks' = [tasks EXCEPT
       ![t].pc = "cleanup",
       ![t].foundTypings = IF tasks[t].tmpDir \in DOMAIN disk
                           THEN FoundTypings(tasks[t].packageInfo, tasks[t].tmpDir,
                                             disk[tasks[t].tmpDir])
                           ELSE Null,
       ![t].result = IF tasks[t].tmpDir \in DOMAIN disk
                     THEN MarkerFound(tasks[t].packageInfo, tasks[t].tmpDir,
                                      disk[tasks[t].tmpDir])
                     ELSE FALSE]
  /\ UNCHANGED <<manifestExists, dependencies, skipAngular,
                 enforceAngularPackageBoundary, phase, dependenciesToCheck,
                 disk, progress>>

\* fs.promises.rm(tmpDir, {recursive, force}) of the finally block is done:
\* isViewEngine returns and the caller pushes to reviewForRemoval or to
\* mayNeedUpgrade.
RmDone(t) ==
  /\ Alive
  /\ tasks[t].pc = "cleanup"
  /\ disk' = [d \in DOMAIN disk \ {tasks[t].tmpDir} |-> disk[d]]
  /\ tasks' = [tasks EXCEPT ![t].pc = "done", ![t].tmpDir = Null]
  /\ Settle(t, Push(dependenciesToCheck, ProbeBucket(tasks[t].result),
                    Entry(t, tasks[t].packageInfo.version)))
  /\ UNCHANGED <<manifestExists, dependencies, skipAngular,
                 enforceAngularPackageBoundary, phase>>

\* ------------------------------------------------------------ specification

Next ==
  \/ ManifestMissing
  \/ Launch
  \/ Render
  \/ \E t \in Tasks : Respond404(t)
  \/ \E t \in Tasks : RespondFailure(t)
  \/ \E t \in Tasks : DelayElapsed(t)
  \/ \E t \in Tasks : Respond2xx(t)
  \/ \E t \in Tasks : MkdtempDone(t)
  \/ \E t \in Tasks : MkdtempFailed(t)
  \/ \E t \in Tasks : DownloadResponse(t)
  \/ \E t \in Tasks : DownloadError(t)
  \/ \E t \in Tasks : ExtractDone(t)
  \/ \E t \in Tasks : ExtractFailed(t)
  \/ \E t \in Tasks : ProbeFiles(t)
  \/ \E t \in Tasks : RmDone(t)

Spec == Init /\ [][Next]_vars

\* ------------------------------------------------------------- properties

RECURSIVE CountIn(_, _, _)
\* How many entries of a bucket carry the package name (bare names in unknown).
CountIn(bucket, bare, packageName) ==
  IF bucket = <<>> THEN 0
  ELSE (IF (IF bare THEN Head(bucket) ELSE Head(bucket).packageName) = packageName
        THEN 1 ELSE 0) + CountIn(Tail(bucket), bare, packageName)

InMayNeedUpgrade(n) == CountIn(dependenciesToCheck.mayNeedUpgrade, FALSE, n)
InReviewForRemoval(n) == CountIn(dependenciesToCheck.reviewForRemoval, FALSE, n)
InUnknown(n) == CountIn(dependenciesToCheck.unknown, TRUE, n)

Occurrences(n) == InMayNeedUpgrade(n) + InReviewForRemoval(n) + InUnknown(n)

\* The task's registry lookup returned a document.
HasInfo(t) == tasks[t].packageInfo \notin {Null, Undefined}

Settled(t) == tasks[t].pc = "done"

AllSettled ==
  /\ phase \in {"running", "rendered"}
  /\ \A t \in Tasks : Launched(t) => Settled(t)

\* isViewEngine returned a value to the task (by its fast path, or after the
\* removal of the temporary directory it created).
ProbeReturned(t) ==
  /\ Settled(t)
  /\ HasInfo(t)
  /\ (tasks[t].result \/ tasks[t].mkdtemps > 0)

\* C1: no dependency name occurs more than once across mayNeedUpgrade,
\* reviewForRemoval and unknown taken together, first-party packages with a
\* differing declared version included.
C1_AtMostOneEntry ==
  \A t \in Tasks : Occurrences(Name(t)) <= 1

\* C2: conservation. Without first-party packages in the manifest, once all
\* tasks have settled the three buckets together hold as many entries as the
\* manifest has dependencies, whatever the registry and the probe did.
C2_Conservation ==
  (AllSettled /\ \A t \in Tasks : ~IsAngularPackage(Name(t)))
    => Len(dependenciesToCheck.mayNeedUpgrade)
         + Len(dependenciesToCheck.reviewForRemoval)
         + Len(dependenciesToCheck.unknown) = Len(dependencies)

\* C3: a first-party package never reaches the archive probe (no temporary
\* directory, no download); with registry metadata it ends with exactly one
\* entry, in mayNeedUpgrade, when its declared version differs from the
\* latest one, and in no bucket when the versions are equal.
C3_AngularExempt ==
  \A t \in Tasks :
    IsAngularPackage(Name(t)) =>
      /\ tasks[t].pc \in {"notLaunched", "fetching", "backoff", "done"}
      /\ tasks[t].mkdtemps = 0
      /\ tasks[t].downloads = 0
      /\ (Settled(t) /\ HasInfo(t)) =>
           IF dependencies[t].currentVersion # tasks[t].packageInfo.version
           THEN InMayNeedUpgrade(Name(t)) = 1 /\ Occurrences(Name(t)) = 1
           ELSE Occurrences(Name(t)) = 0

\* The dependencies C4 speaks of: boundary mode off, not first-party,
\* metadata present, no '@angular/core' in the combined dependency maps.
C4_Case(t) ==
  /\ ~enforceAngularPackageBoundary
  /\ ~IsAngularPackage(Name(t))
  /\ HasInfo(t)
  /\ ~hasAngularCoreDependency(tasks[t].packageInfo)

C5_BoundaryRejects ==
  \A t \in Tasks :
    ( /\ enforceAngularPackageBoundary
      /\ ~IsAngularPackage(Name(t))
      /\ HasInfo(t)
      /\ ~hasAngularCoreDependency(tasks[t].packageInfo) ) =>
      /\ Settled(t)
      /\ InUnknown(Name(t)) = 1
      /\ InMayNeedUpgrade(Name(t)) = 0
      /\ InReviewForRemoval(Name(t)) = 0
      /\ tasks[t].mkdtemps = 0
      /\ tasks[t].downloads = 0
      /\ tasks[t].tmpDir = Null

\* A package with the legacy flag and without '@angular/core', rejected.
C5_Witness ==
  \E t \in Tasks :
    /\ enforceAngularPackageBoundary
    /\ Name(t) = OldFlag
    /\ HasInfo(t)
    /\ tasks[t].packageInfo.metadata
    /\ Settled(t)
    /\ InUnknown(OldFlag) = 1

\* The entry point a package declares (typings, else types).
DeclaredTypings(packageInfo) ==
  IF packageInfo.typings # Null THEN packageInfo.typings ELSE packageInfo.types

\* C6: for a dependency that is not first-party, whose metadata lacks the
\* legacy flag and whose archive was downloaded and extracted, a marker file
\* (.d.ts replaced by .metadata.json) beside the declaration entry point in
\* the extracted tree means reviewForRemoval, its absence mayNeedUpgrade.
C6_MarkerDecides ==
  \A t \in Tasks :
    ( /\ ~IsAngularPackage(Name(t))
      /\ Settled(t)
      /\ HasInfo(t)
      /\ tasks[t].extracted
      /\ ~tasks[t].packageInfo.metadata
      /\ DeclaredTypings(tasks[t].packageInfo) # Null ) =>
      IF MetadataFileOf(DeclaredTypings(tasks[t].packageInfo))
           \in tasks[t].packageInfo.archive
      THEN InReviewForRemoval(Name(t)) = 1 /\ InMayNeedUpgrade(Name(t)) = 0
      ELSE InMayNeedUpgrade(Name(t)) = 1 /\ InReviewForRemoval(Name(t)) = 0

\* C7: a dependency that is not first-party, passes the boundary test and
\* carries the legacy flag gets true from the probe and is classified
\* reviewForRemoval only, with no temporary directory and no download.
C7_FlagFastPath ==
  \A t \in Tasks :
    ( /\ ~IsAngularPackage(Name(t))
      /\ HasInfo(t)
      /\ (enforceAngularPackageBoundary
            => hasAngularCoreDependency(tasks[t].packageInfo))
      /\ tasks[t].packageInfo.metadata ) =>
      /\ Settled(t)
      /\ tasks[t].result
      /\ InReviewForRemoval(Name(t)) = 1
      /\ Occurrences(Name(t)) = 1
      /\ tasks[t].mkdtemps = 0
      /\ tasks[t].downloads = 0
      /\ tasks[t].tmpDir = Null

\* The flagged package that declares '@angular/core', in boundary mode.
C7_Witness ==
  \E t \in Tasks :
    /\ enforceAngularPackageBoundary
    /\ Name(t) = NgxFlag
    /\ HasInfo(t)
    /\ Settled(t)
    /\ InReviewForRemoval(NgxFlag) = 1

Last(s) == s[Len(s)]

\* C8: a 404 answer ends the lookup: no backoff delay and no further request
\* follow it (one request in all when the first answer is the 404), the
\* dependency is in unknown once and in no other bucket, and no probe starts.
C8_NotFound ==
  \A t \in Tasks :
    (tasks[t].responses # <<>> /\ Last(tasks[t].responses) = "404") =>
      /\ Settled(t)
      /\ tasks[t].packageInfo = Null
      /\ tasks[t].requests = Len(tasks[t].responses)
      /\ Len(tasks[t].delays) = Len(tasks[t].responses) - 1
      /\ (tasks[t].responses = <<"404">> =>
            tasks[t].requests = 1 /\ tasks[t].delays = <<>>)
      /\ InUnknown(Name(t)) = 1
      /\ Occurrences(Name(t)) = 1
      /\ tasks[t].mkdtemps = 0
      /\ tasks[t].downloads = 0

C8_Witness ==
  \E t \in Tasks :
    /\ tasks[t].responses = <<"404">>
    /\ Settled(t)
    /\ InUnknown(Name(t)) = 1

\* C9: the k-th failed attempt (k = 1, 2) is followed by a delay of
\* 1000 * 2^(k-1) ms and the next request is issued only once it has elapsed;
\* nothing is waited after the third failure; two failures and then a 2xx
\* give delays 1000, 2000 and the parsed document, not an absent result.
C9_Backoff ==
  \A t \in Tasks :
    LET d == tasks[t].delays
        r == tasks[t].responses
        failed == Cardinality({k \in 1..Len(r) : r[k] = "failure"})
    IN
    /\ \A k \in 1..Len(d) : d[k] = 1000 * Pow2(k - 1)
    /\ Len(d) = (IF failed < 3 THEN failed ELSE 2)
    /\ tasks[t].pc = "backoff" => tasks[t].requests = Len(d)
    /\ tasks[t].pc \notin {"backoff", "notLaunched"} => tasks[t].requests = Len(d) + 1
    /\ r = <<"failure", "failure", "2xx">> =>
         /\ d = <<1000, 2000>>
         /\ tasks[t].packageInfo = RegistryDoc(Name(t))
         /\ tasks[t].requests = 3
    /\ r = <<"failure", "failure", "failure">> => d = <<1000, 2000>>

\* Two failures, a 2xx on the third attempt, and a classification that is
\* not the absent one.
C9_Witness ==
  \E t \in Tasks :
    /\ tasks[t].responses = <<"failure", "failure", "2xx">>
    /\ tasks[t].delays = <<1000, 2000>>
    /\ Settled(t)
    /\ InUnknown(Name(t)) = 0
    /\ Occurrences(Name(t)) = 1

Exhausted(t) == tasks[t].responses = <<"failure", "failure", "failure">>

\* Any callback of task t.
TaskStep(t) ==
  \/ Respond404(t) \/ RespondFailure(t) \/ DelayElapsed(t) \/ Respond2xx(t)
  \/ MkdtempDone(t) \/ MkdtempFailed(t) \/ DownloadResponse(t)
  \/ DownloadError(t) \/ ExtractDone(t) \/ ExtractFailed(t)
  \/ ProbeFiles(t) \/ RmDone(t)

C10_ExhaustedState ==
  /\ dependenciesToCheck.processedPackages
       = Cardinality({t \in Tasks : Settled(t)})
  /\ \A t \in Tasks :
       Exhausted(t) =>
         /\ Settled(t)
         /\ tasks[t].packageInfo = Undefined
         /\ InUnknown(Name(t)) = 1
         /\ Occurrences(Name(t)) = 1
         /\ \A u \in Tasks \ {t} :
              (phase = "running" /\ tasks[u].pc \notin {"done", "notLaunched"})
                => ENABLED TaskStep(u)

C10_ExhaustingStep ==
  \A t \in Tasks :
    (~Exhausted(t) /\ Exhausted(t)') =>
      /\ phase' = phase
      /\ dependenciesToCheck'.processedPackages
           = dependenciesToCheck.processedPackages + 1
      /\ \A u \in Tasks \ {t} : tasks'[u] = tasks[u]

\* C10: three failed attempts do not throw: the lookup returns an absent
\* result, the dependency is put in unknown exactly once, its task settles
\* and is counted in processedPackages, and the step neither stops the run
\* nor touches another task, whose callbacks stay enabled.
C10_RetriesExhausted ==
  []C10_ExhaustedState /\ [][C10_ExhaustingStep]_vars

\* One task out of retries and in unknown, another settled with registry
\* metadata of its own.
C10_Witness ==
  \E t, u \in Tasks :
    /\ t # u
    /\ Exhausted(t)
    /\ InUnknown(Name(t)) = 1
    /\ Settled(u)
    /\ HasInfo(u)
    /\ dependenciesToCheck.unknown = <<Name(t)>>
    /\ dependenciesToCheck.processedPackages = 2

\* The temporary directories task t created that exist.
DirsOf(t) == { d \in DOMAIN disk : d.prefix = TmpPrefix(Name(t)) }

\* The run is over: the report is printed, or the process is dead.
RunOver == phase \in {"rendered", "crashed"}

\* C11: cleanup. The temporary directory a probe created no longer exists
\* when the probe has completed, whatever its path was (marker found or
\* absent, no entry point, download error, extraction error); so no
\* temporary directory of the run exists once all tasks have settled, nor
\* once the run is over.
C11_Cleanup ==
  /\ \A t \in Tasks : (Settled(t) /\ tasks[t].mkdtemps > 0) => DirsOf(t) = {}
  /\ (AllSettled \/ RunOver) => disk = <<>>

\* The archive of task t was requested and not extracted: the download or
\* the extraction failed, and isViewEngine is past its try block.
ArchiveFailed(t) ==
  /\ tasks[t].downloads > 0
  /\ ~tasks[t].extracted
  /\ tasks[t].pc \in {"cleanup", "done"}

\* C12: a download error or an extraction error stays inside the probe, which
\* returns false: the dependency is appended to mayNeedUpgrade and to no
\* other bucket, and the error neither reaches the coordinator nor ends the
\* run.
C12_ArchiveFailureContained ==
  /\ phase # "crashed"
  /\ \A t \in Tasks :
       ArchiveFailed(t) =>
         /\ ~tasks[t].result
         /\ Settled(t) =>
              /\ InMayNeedUpgrade(Name(t)) >= 1
              /\ InReviewForRemoval(Name(t)) = 0
              /\ InUnknown(Name(t)) = 0

FairSpec ==
  /\ Spec
  /\ \A t \in 1..MaxDeps : WF_vars(t \in Tasks /\ TaskStep(t))
  /\ WF_vars(Launch)
  /\ WF_vars(Render)

\* C14: failure isolation and termination. When every request yields a
\* response or an error, every launched task settles and the run reaches
\* rendering, whichever tasks suffer registry or archive failures.
C14_Termination ==
  (phase = "running") ~> (phase = "rendered" /\ PromiseAll)

\* C15: without package.json the run ends after the error message: the run
\* state is untouched, no task is launched, no registry request is issued,
\* no progress bar and no report is printed.
C15_ManifestMissing ==
  ~manifestExists =>
    /\ phase \in {"start", "noManifest"}
    /\ dependenciesToCheck =
         [mayNeedUpgrade |-> <<>>, reviewForRemoval |-> <<>>, unknown |-> <<>>,
          processedPackages |-> 0]
    /\ \A t \in Tasks : tasks[t] = IdleTask /\ tasks[t].requests = 0
    /\ progress = <<>>
    /\ disk = <<>>

\* The run has ended on the missing manifest, in a directory whose manifest
\* would have listed two dependencies.
C15_Witness ==
  /\ ~manifestExists
  /\ phase = "noManifest"
  /\ Len(dependencies) = 2

\* C16: with -ng, no task is launched for a dependency whose name starts
\* with '@angular/': no registry request, no bucket entry, no contribution
\* to processedPackages; every other dependency is launched.
C16_SkipAngular ==
  skipAngular =>
    /\ \A t \in Tasks :
         IsAngularPackage(Name(t)) =>
           /\ tasks[t] = IdleTask
           /\ tasks[t].requests = 0
           /\ Occurrences(Name(t)) = 0
    /\ dependenciesToCheck.processedPackages
         = Cardinality({t \in Tasks : ~IsAngularPackage(Name(t)) /\ Settled(t)})
    /\ phase \in {"running", "rendered", "crashed"} =>
         \A t \in Tasks :
           ~IsAngularPackage(Name(t)) =>
             tasks[t].pc # "notLaunched" /\ tasks[t].requests >= 1

\* -ng with '@angular/core' 15.0.0 and one other dependency: the report is
\* rendered with one package processed and '@angular/core' in no bucket.
C16_Witness ==
  /\ skipAngular
  /\ phase = "rendered"
  /\ Len(dependencies) = 2
  /\ dependencies[1] = [packageName |-> NgCore, currentVersion |-> "15.0.0"]
  /\ tasks[1].pc = "notLaunched"
  /\ Settled(2)
  /\ dependenciesToCheck.processedPackages = 1
  /\ Occurrences(NgCore) = 0

\* C17: a task's bucket append and its processedPackages increment are one
\* step for the other tasks: no state in which a task has appended and is
\* not yet counted lets a callback of another task run, and the counter
\* always equals the number of settled tasks.
C17_AtomicAppendAndCount ==
  /\ dependenciesToCheck.processedPackages
       = Cardinality({t \in Tasks : Settled(t)})
  /\ \A t \in Tasks :
       (Occurrences(Name(t)) > 0 /\ ~Settled(t)) =>
         \A u \in Tasks \ {t} : ~ENABLED TaskStep(u)

\* The entries of a bucket, as a set.
Members(bucket) == { bucket[i] : i \in 1..Len(bucket) }

\* What task t alone accounts for in each bucket, from its own registry
\* answer and its own probe outcome.
OwnMayNeedUpgrade(t) ==
  IF /\ HasInfo(t)
     /\ \/ IsAngularPackage(Name(t))
           /\ dependencies[t].currentVersion # tasks[t].packageInfo.version
        \/ Settled(t) /\ tasks[t].mkdtemps > 0 /\ ~tasks[t].result
  THEN {Entry(t, tasks[t].packageInfo.version)} ELSE {}

OwnReviewForRemoval(t) ==
  IF HasInfo(t) /\ Settled(t) /\ tasks[t].result
  THEN {Entry(t, tasks[t].packageInfo.version)} ELSE {}

OwnUnknown(t) ==
  IF /\ Settled(t)
     /\ \/ ~HasInfo(t)
        \/ /\ ~(IsAngularPackage(Name(t))
                  /\ dependencies[t].currentVersion = tasks[t].packageInfo.version)
           /\ enforceAngularPackageBoundary
           /\ ~hasAngularCoreDependency(tasks[t].packageInfo)
  THEN {Name(t)} ELSE {}

\* C18: order independence. The content of each bucket, as a set, is the
\* union over the dependencies of what each one's own registry and archive
\* outcome accounts for: it is the same in every interleaving and completion
\* order, and no dependency's classification depends on another's.
C18_OrderIndependent ==
  /\ Members(dependenciesToCheck.mayNeedUpgrade)
       = UNION { OwnMayNeedUpgrade(t) : t \in Tasks }
  /\ Members(dependenciesToCheck.reviewForRemoval)
       = UNION { OwnReviewForRemoval(t) : t \in Tasks }
  /\ Members(dependenciesToCheck.unknown)
       = UNION { OwnUnknown(t) : t \in Tasks }

\* Two dependencies that end in the same bucket, the second of the manifest
\* having completed first.
C18_Witness ==
  /\ AllSettled
  /\ Len(dependencies) = 2
  /\ Len(dependenciesToCheck.mayNeedUpgrade) = 2
  /\ dependenciesToCheck.mayNeedUpgrade[1].packageName = Name(2)
  /\ dependenciesToCheck.mayNeedUpgrade[2].packageName = Name(1)

RECURSIVE FirstDeclared(_, _)
\* The declaration file of the first format property, in the order of the
\* list, whose declaration file is in the package's archive.
FirstDeclared(packageInfo, i) ==
  IF i > Len(SUPPORTED_FORMAT_PROPERTIES) THEN Null
  ELSE LET prop == SUPPORTED_FORMAT_PROPERTIES[i] IN
       IF /\ prop \in DOMAIN packageInfo.formats
          /\ ReplaceJsByDts(packageInfo.formats[prop]) \in packageInfo.archive
       THEN ReplaceJsByDts(packageInfo.formats[prop])
       ELSE FirstDeclared(packageInfo, i + 1)

ExpectedEntryPoint(packageInfo) ==
  IF DeclaredTypings(packageInfo) # Null THEN DeclaredTypings(packageInfo)
  ELSE FirstDeclared(packageInfo, 1)

\* C19: entry-point resolution. After the extraction the probe's entry point
\* is the typings or types field when there is one; otherwise it is derived
\* ('.js' replaced by '.d.ts') from the first of fesm2015, fesm5, es2015,
\* esm2015, esm5, main, module, browser whose declaration file exists in the
\* extracted tree.
C19_EntryPoint ==
  \A t \in Tasks :
    (tasks[t].extracted /\ tasks[t].pc \in {"cleanup", "done"}) =>
      LET expected == ExpectedEntryPoint(tasks[t].packageInfo)
          found == tasks[t].foundTypings
      IN IF expected = Null THEN found = Null
         ELSE found # Null /\ Rel(found.dir, found.file) = expected

\* The dependencies C20 speaks of: metadata that declares '@angular/core',
\* handed to isViewEngine.
C20_Case(t) ==
  /\ HasInfo(t)
  /\ hasAngularCoreDependency(tasks[t].packageInfo)
  /\ ~(IsAngularPackage(Name(t))
         /\ dependencies[t].currentVersion = tasks[t].packageInfo.version)

C21_RetryBudget ==
  \A t \in Tasks :
    LET r == tasks[t].responses IN
    /\ tasks[t].requests <= 3
    /\ tasks[t].attempt = tasks[t].requests
    /\ tasks[t].requests = Len(r) + (IF tasks[t].pc = "fetching" THEN 1 ELSE 0)
    /\ \A k \in 1..(Len(r) - 1) : r[k] = "failure"
    /\ (r # <<>> /\ Last(r) = "failure") =>
         \/ Len(r) < 3 /\ tasks[t].pc \in {"backoff", "fetching"}
         \/ Len(r) = 3 /\ Settled(t) /\ tasks[t].packageInfo = Undefined
    /\ (r # <<>> /\ Last(r) \in {"2xx", "404"}) =>
         tasks[t].pc \notin {"fetching", "backoff"}

\* One lookup that used all three attempts, another that got its document on
\* the second attempt.
C21_Witness ==
  \E t, u \in Tasks :
    /\ Exhausted(t) /\ tasks[t].requests = 3
    /\ tasks[u].responses = <<"failure", "2xx">> /\ tasks[u].requests = 2
    /\ HasInfo(u)

\* The tasks the coordinator launched.
LaunchedTasks == { t \in Tasks : Launched(t) }

C22_CountState ==
  /\ dependenciesToCheck.processedPackages
       = Cardinality({t \in Tasks : Settled(t)})
  /\ dependenciesToCheck.processedPackages <= Cardinality(LaunchedTasks)
  /\ phase \in {"start", "noManifest"} => dependenciesToCheck.processedPackages = 0
  /\ phase = "rendered" =>
       dependenciesToCheck.processedPackages = Cardinality(LaunchedTasks)

C22_CountStep ==
  \/ dependenciesToCheck'.processedPackages = dependenciesToCheck.processedPackages
  \/ /\ dependenciesToCheck'.processedPackages
          = dependenciesToCheck.processedPackages + 1
     /\ Cardinality({t \in Tasks : ~Settled(t) /\ Settled(t)'}) = 1

\* C22: processedPackages starts at 0, never decreases, grows by exactly 1
\* with each task that settles (tasks ended by a handled failure and
\* first-party tasks without a bucket entry included), never exceeds the
\* number of launched tasks and equals it when rendering begins.
C22_ProcessedCount == []C22_CountState /\ [][C22_CountStep]_vars

\* Rendered with two tasks counted: an up-to-date first-party package that is
\* in no bucket, and a lookup that ran out of retries.
C22_Witness ==
  /\ phase = "rendered"
  /\ dependenciesToCheck.processedPackages = 2
  /\ \E t, u \in Tasks :
       /\ IsAngularPackage(Name(t)) /\ Settled(t) /\ Occurrences(Name(t)) = 0
       /\ Exhausted(u)

\* C23: progress emission. The completion that brings processedPackages to a
\* multiple of 5 emits a progress indication, so does the completion of the
\* last launched task, and no other completion does, with -ng as without.
C23_ProgressEmission ==
  [][dependenciesToCheck'.processedPackages
       = dependenciesToCheck.processedPackages + 1
     => progress' =
          IF \/ dependenciesToCheck'.processedPackages % 5 = 0
             \/ dependenciesToCheck'.processedPackages = Cardinality(LaunchedTasks)
          THEN Append(progress, dependenciesToCheck'.processedPackages)
          ELSE progress]_vars

\* C24: no throttling. Once the coordinator has launched, every dependency
\* that passes the filter has its task started and its first registry
\* request issued; until the first response is processed all these lookups
\* are in flight together.
C24_NoThrottling ==
  phase \in {"running", "rendered", "crashed"} =>
    /\ \A t \in LaunchedTasks :
         tasks[t].pc # "notLaunched" /\ tasks[t].requests >= 1
    /\ (\A t \in Tasks : tasks[t].responses = <<>>) =>
         Cardinality({t \in Tasks : tasks[t].pc = "fetching"})
           = Cardinality(LaunchedTasks)

\* Two lookups in flight, no response processed yet.
C24_Witness ==
  /\ phase = "running"
  /\ Cardinality(LaunchedTasks) = 2
  /\ \A t \in Tasks :
       /\ tasks[t].pc = "fetching"
       /\ tasks[t].requests = 1
       /\ tasks[t].responses = <<>>

\* Bucket b2 is bucket b, or b with one entry added at its end.
Extends(b, b2) ==
  \/ b2 = b
  \/ Len(b2) = Len(b) + 1 /\ SubSeq(b2, 1, Len(b)) = b

\* C25: the buckets are append-only. Every step leaves each bucket unchanged
\* or adds one entry at its end, an entry of a task that took the step;
\* nothing is removed, moved or changed, so the entries other tasks appended
\* stay as they are.
C25_AppendOnly ==
  [][/\ \A b \in {"mayNeedUpgrade", "reviewForRemoval", "unknown"} :
          Extends(dependenciesToCheck[b], dependenciesToCheck'[b])
     /\ \A b \in {"mayNeedUpgrade", "reviewForRemoval"} :
          dependenciesToCheck'[b] # dependenciesToCheck[b] =>
            \E t \in Tasks : /\ tasks'[t] # tasks[t]
                             /\ Last(dependenciesToCheck'[b]).packageName = Name(t)
     /\ dependenciesToCheck'.unknown # dependenciesToCheck.unknown =>
          \E t \in Tasks : /\ tasks'[t] # tasks[t]
                           /\ Last(dependenciesToCheck'.unknown) = Name(t)]_vars

\* A bucket with the entries of two tasks, the one appended first still in
\* front.
C25_Witness ==
  /\ Len(dependencies) = 2
  /\ Len(dependenciesToCheck.reviewForRemoval) = 2
  /\ dependenciesToCheck.reviewForRemoval[1].packageName = Name(2)
  /\ dependenciesToCheck.reviewForRemoval[2].packageName = Name(1)

\* C26: temporary directories are private. Two probes in progress never have
\* the same directory, also when their package names sanitise to the same
\* prefix; the directory of a probe in progress exists, and after the
\* extraction it holds that package's files and no others until the probe
\* itself removes it.
C26_PrivateTmpDirs ==
  /\ \A t, u \in Tasks :
       (t # u /\ tasks[t].tmpDir # Null /\ tasks[u].tmpDir # Null) =>
         tasks[t].tmpDir # tasks[u].tmpDir
  /\ \A t \in Tasks :
       tasks[t].tmpDir # Null =>
         /\ tasks[t].tmpDir \in DOMAIN disk
         /\ tasks[t].extracted => disk[tasks[t].tmpDir] = tasks[t].packageInfo.archive

\* '@ngx/ve' and '_ngx_ve' probed at the same time: one prefix, two
\* directories, each with its own package's files.
C26_Witness ==
  \E t, u \in Tasks :
    /\ Name(t) = NgxVe /\ Name(u) = NgxIvy
    /\ TmpPrefix(Name(t)) = TmpPrefix(Name(u))
    /\ tasks[t].pc = "probing" /\ tasks[u].pc = "probing"
    /\ tasks[t].tmpDir.prefix = tasks[u].tmpDir.prefix
    /\ tasks[t].tmpDir # tasks[u].tmpDir
    /\ disk[tasks[t].tmpDir] # disk[tasks[u].tmpDir]

\* C27: the steps of one task are ordered. At most one registry request of
\* the task is outstanding: a request is outstanding only while the task
\* waits for it, and during a backoff none is; the probe (temporary
\* directory, archive download) starts only after the lookup returned a
\* document, and never for an absent result.
C27_InTaskOrder ==
  \A t \in Tasks :
    LET r == tasks[t].responses IN
    /\ tasks[t].requests - Len(r) \in {0, 1}
    /\ tasks[t].pc = "fetching" =>
         tasks[t].requests = Len(r) + 1 /\ Len(tasks[t].delays) = Len(r)
    /\ tasks[t].pc = "backoff" =>
         tasks[t].requests = Len(r) /\ Len(tasks[t].delays) = Len(r)
    /\ ( \/ tasks[t].mkdtemps > 0
         \/ tasks[t].downloads > 0
         \/ tasks[t].pc \in {"mkdtemp", "downloading", "extracting", "probing", "cleanup"} ) =>
         /\ HasInfo(t)
         /\ Last(r) = "2xx"
         /\ tasks[t].requests = Len(r)
    /\ ~HasInfo(t) => tasks[t].mkdtemps = 0 /\ tasks[t].downloads = 0

\* A lookup whose second attempt returned the document, with the archive
\* download now under way.
C27_Witness ==
  \E t \in Tasks :
    /\ tasks[t].responses = <<"failure", "2xx">>
    /\ tasks[t].delays = <<1000>>
    /\ tasks[t].requests = 2
    /\ tasks[t].pc = "downloading"
    /\ tasks[t].downloads = 1

\* ------------------------------------------- the sequential variant, index.js
\* src/index.js has no flags, no retry and no archive probe: one httpGet per
\* dependency, awaited inside a for loop. It runs on the same variables;
\* skipAngular, enforceAngularPackageBoundary and disk stay as they start.

\* semver.minVersion of the range a package's latest version declares for
\* '@angular/core', by its major number.
angularCoreMinMajor(packageName) ==
  IF packageName = NgxFlag THEN 8
  ELSE IF packageName = NgxVe THEN 9
  ELSE 15

\* semver.satisfies(semver.minVersion(angularCoreVersion), '>=12.0.0')
SatisfiesAngular12(packageName) == angularCoreMinMajor(packageName) >= 12

\* The bucket of index.js for a package whose packument was read.
SeqBucket(packageInfo) ==
  IF hasAngularCoreDependency(packageInfo)
  THEN IF SatisfiesAngular12(packageInfo.name)
       THEN "mayNeedUpgrade" ELSE "reviewForRemoval"
  ELSE "unknown"

\* The entry pushed: an object, or the bare name in unknown.
SeqEntry(t, packageInfo) ==
  IF hasAngularCoreDependency(packageInfo)
  THEN Entry(t, packageInfo.version) ELSE Name(t)

\* Variant: the increment is at the end of the try block, not in a finally.
SeqFinally_InTry(dtc, thrown) ==
  IF thrown THEN dtc ELSE [dtc EXCEPT !.processedPackages = @ + 1]

\* `finally { dependenciesToCheck.processedPackages++; }`
SeqFinally(dtc, thrown) == [dtc EXCEPT !.processedPackages = @ + 1]

SeqInit ==
  /\ manifestExists \in BOOLEAN
  /\ dependencies \in Manifests
  /\ skipAngular = FALSE
  /\ enforceAngularPackageBoundary = FALSE
  /\ phase = "start"
  /\ dependenciesToCheck =
       [mayNeedUpgrade |-> <<>>, reviewForRemoval |-> <<>>, unknown |-> <<>>,
        processedPackages |-> 0]
  /\ tasks = [t \in Tasks |-> IdleTask]
  /\ disk = <<>>
  /\ progress = <<>>

\* index.js without package.json: the error message and return.
SeqManifestMissing ==
  /\ phase = "start"
  /\ ~manifestExists
  /\ phase' = "noManifest"
  /\ UNCHANGED <<manifestExists, dependencies, skipAngular,
                 enforceAngularPackageBoundary, dependenciesToCheck, tasks,
                 disk, progress>>

\* The for loop reaches `await checkAngularCompatibility(...)` of the first
\* key, which runs to its `await httpGet(url)`; without keys the report is
\* printed at once.
SeqStart ==
  /\ phase = "start"
  /\ manifestExists
  /\ phase' = IF Len(dependencies) = 0 THEN "printed" ELSE "running"
  /\ progress' = Append(progress, 0)
  /\ tasks' = [t \in Tasks |->
                 IF t = 1
                 THEN [IdleTask EXCEPT !.pc = "fetching", !.attempt = 1, !.requests = 1]
                 ELSE IdleTask]
  /\ UNCHANGED <<manifestExists, dependencies, skipAngular,
                 enforceAngularPackageBoundary, dependenciesToCheck, disk>>

\* checkAngularCompatibility of key t has returned: the loop calls it for the
\* next key, which issues its request, or ends and the report is printed.
SeqReturn(t, class, packageInfo) ==
  /\ tasks' = [u \in Tasks |->
                 IF u = t
                 THEN [tasks[t] EXCEPT !.pc = "done", !.packageInfo = packageInfo,
                                       !.responses = Append(@, class)]
                 ELSE IF u = t + 1
                 THEN [IdleTask EXCEPT !.pc = "fetching", !.attempt = 1, !.requests = 1]
                 ELSE tasks[u]]
  /\ phase' = IF t = Len(dependencies) THEN "printed" ELSE "running"
  /\ UNCHANGED <<manifestExists, dependencies, skipAngular,
                 enforceAngularPackageBoundary, disk>>

SeqFetching(t) == phase = "running" /\ tasks[t].pc = "fetching"

\* The packument arrived: one push, the progress bar with the count before
\* the increment, the summary, and the finally.
SeqFetched(t) ==
  /\ SeqFetching(t)
  /\ LET packageInfo == RegistryDoc(Name(t)) IN
     /\ dependenciesToCheck' =
          SeqFinally(Push(dependenciesToCheck, SeqBucket(packageInfo),
                          SeqEntry(t, packageInfo)), FALSE)
     /\ progress' = Append(progress, dependenciesToCheck.processedPackages)
     /\ SeqReturn(t, "2xx", packageInfo)

\* The body is JSON without 'dist-tags' (the registry's {"error": "Not
\* found"}): `packageInfo['dist-tags'].latest` throws a TypeError inside the
\* try; the catch logs, the finally counts.
SeqNoDistTags(t) ==
  /\ SeqFetching(t)
  /\ dependenciesToCheck' = SeqFinally(dependenciesToCheck, TRUE)
  /\ UNCHANGED progress
  /\ SeqReturn(t, "404", Null)

\* The request's 'error' event: httpGet rejects, the catch logs, the finally
\* counts.
SeqFetchError(t) ==
  /\ SeqFetching(t)
  /\ dependenciesToCheck' = SeqFinally(dependenciesToCheck, TRUE)
  /\ UNCHANGED progress
  /\ SeqReturn(t, "failure", Null)

\* The body is not JSON: JSON.parse throws inside the 'end' listener, outside
\* the promise and every try; the process dies.
SeqBodyNotJson(t) ==
  /\ SeqFetching(t)
  /\ phase' = "crashed"
  /\ UNCHANGED <<manifestExists, dependencies, skipAngular,
                 enforceAngularPackageBoundary, dependenciesToCheck, tasks,
                 disk, progress>>

SeqNext ==
  \/ SeqManifestMissing
  \/ SeqStart
  \/ \E t \in Tasks : SeqFetched(t)
  \/ \E t \in Tasks : SeqNoDistTags(t)
  \/ \E t \in Tasks : SeqFetchError(t)
  \/ \E t \in Tasks : SeqBodyNotJson(t)

SeqSpec == SeqInit /\ [][SeqNext]_vars

\* C28: in index.js the dependencies are processed one at a time in manifest
\* order: the request of a dependency is outstanding only when every earlier
\* one has finished and no later one has started; processedPackages counts
\* each finished dependency once, fetched or failed, and equals the number
\* of dependencies when the report is printed; a dependency whose fetch
\* failed is in no bucket.
C28_Sequential ==
  /\ \A t \in Tasks :
       tasks[t].pc = "fetching" =>
         /\ \A u \in 1..(t - 1) : Settled(u)
         /\ \A u \in (t + 1)..Len(dependencies) :
              tasks[u].pc = "notLaunched" /\ tasks[u].requests = 0
  /\ \A t \in Tasks : tasks[t].requests <= 1
  /\ dependenciesToCheck.processedPackages
       = Cardinality({t \in Tasks : Settled(t)})
  /\ phase = "printed" =>
       /\ \A t \in Tasks : Settled(t)
       /\ dependenciesToCheck.processedPackages = Len(dependencies)
  /\ \A t \in Tasks :
       (Settled(t) /\ ~HasInfo(t)) => Occurrences(Name(t)) = 0

\* The report printed for two dependencies: the fetch of the first failed, it
\* is in no bucket; the second is classified; both are counted.
C28_Witness ==
  /\ phase = "printed"
  /\ Len(dependencies) = 2
  /\ tasks[1].responses = <<"failure">>
  /\ Occurrences(Name(1)) = 0
  /\ HasInfo(2)
  /\ Occurrences(Name(2)) = 1
  /\ dependenciesToCheck.processedPackages = 2

====
